---- MODULE Spec2Model ----
(***************************************************************************)
(* Medical-Organiser: the document understanding pipeline of the backend   *)
(* service AIProcessor (text extraction, structured extraction through a   *)
(* chat completion, validation of the model's JSON, conditional summary).  *)
(*                                                                         *)
(* JavaScript values are encoded as follows.  A scalar is a string token:  *)
(* Undef stands for undefined (also what reading a missing property        *)
(* gives), Null for null, every other token is a JavaScript string.  A     *)
(* text is a sequence of characters, so that trim() can be computed.       *)
(***************************************************************************)
EXTENDS Integers, Sequences, FiniteSets, TLC

VARIABLES
    pc,             \* where the processDocument invocation stands
    file,           \* the Express.Multer.File argument
    rawText,        \* pdfData.text / ocrText: what the PDF pass or OCR produced
    text,           \* processDocument's `text`: what extractText returned
    content,        \* response.choices[0]?.message?.content of the extraction call
    parsedData,     \* JSON.parse(cleanResult), before it is normalised
    formattedData,  \* extractStructuredData's formattedData
    medicalRecord,  \* the record processDocument resolves with
    error,          \* the Error processDocument rejects with
    promises,       \* how each awaited external call has settled
    calls,          \* how often each external service has been invoked
    instance,       \* AIProcessor.instance: 0 while undefined, else the object's number
    constructed,    \* how often the constructor of AIProcessor has run
    returned,       \* the objects getInstance has returned so far
    getCalls,       \* how often getInstance has been called
    smokeTest,      \* the promise of testOpenAIConnection
    process,        \* the Node process: running or exited
    vectorStore,    \* this.vectorStore: the documents held by the MemoryVectorStore
    search,         \* the searchSimilarDocuments invocation
    storeCalls,     \* how often vectorStore.similaritySearch has been invoked
    inv,            \* the locals of concurrently running processDocument invocations
    records,        \* the MedicalRecord collection
    disk,           \* the files in the uploads directory
    request,        \* the request of the records router being handled, or the last one
    served          \* how many requests have been received

\* the state of the one processDocument invocation followed step by step
pipelineVars ==
    <<pc, file, rawText, text, content, parsedData, formattedData, medicalRecord, error,
      promises, calls>>

\* the singleton and its smoke test
facadeVars == <<instance, constructed, returned, getCalls, smokeTest, process>>

\* the similarity index and the search running on it
searchVars == <<vectorStore, search, storeCalls>>

\* the records router: the collection, the uploads directory, the request
routeVars == <<records, disk, request, served>>

vars == <<pipelineVars, facadeVars, searchVars, inv, routeVars>>

-----------------------------------------------------------------------------
(* Bounds of the model *)

\* longest prescription array the language model returns
MaxMeds == 2

\* how often getInstance is called
MaxGetInstance == 2

\* how many documents are put into the similarity index
MaxDocs == 6

\* how many requests the records router receives
MaxRequests == 2

-----------------------------------------------------------------------------
(* JavaScript values *)

Undef == "<undefined>"
Null == "<null>"

\* x is falsy: the left operand of `x || d` is replaced by d
Falsy(x) == x \in {Undef, Null, ""}

\* x || d
Or(x, d) == IF Falsy(x) THEN d ELSE x

\* o.k for an object held as a function from its own keys
Get(o, k) == IF k \in DOMAIN o THEN o[k] ELSE Undef

\* new Date().toISOString().split('T')[0]
Today == "2026-11-04"

-----------------------------------------------------------------------------
(* Uploaded files and the texts OCR / pdf-parse produce *)

PdfMime == "application/pdf"

MimeTypes == {PdfMime, "image/png", "text/plain"}

Files == [mimetype : MimeTypes, path : {"uploads/file-1"}]

NoFile == [mimetype |-> "", path |-> ""]

Whitespace == {" ", "\n"}

\* what the OCR / PDF pass may produce: nothing, only white space, or text
TextPool ==
    { <<>>, <<" ">>, <<"\n", " ">>, <<" ", "R", "x", "\n">> }

RECURSIVE TrimStart(_)
TrimStart(s) ==
    IF s # <<>> /\ Head(s) \in Whitespace THEN TrimStart(Tail(s)) ELSE s

RECURSIVE TrimEnd(_)
TrimEnd(s) ==
    IF s # <<>> /\ s[Len(s)] \in Whitespace
    THEN TrimEnd(SubSeq(s, 1, Len(s) - 1)) ELSE s

\* String.prototype.trim
Trim(s) == TrimEnd(TrimStart(s))

\* !text || text.trim().length === 0
IsBlank(t) == t = <<>> \/ Len(Trim(t)) = 0

-----------------------------------------------------------------------------
(* The chat completion's answer to the extraction prompt.                  *)
(* A content string is held as <<pre, body, post>>: the text segments      *)
(* before the body, the body, and the text segments after it.  The body is *)
(* a JSON value, prose that is no JSON, or nothing at all.                 *)

ScalarKeys == {"patientName", "date", "doctorName", "diagnosis", "notes", "recordType"}

MedKeys == {"medicineName", "dosage", "duration", "tablets"}

\* elements the model may put into the prescription array
NullElement == [kind |-> "null", props |-> <<>>]

StringElement == [kind |-> "string", props |-> <<>>]

ObjectElement(props) == [kind |-> "object", props |-> props]

MedPool ==
    { NullElement,
      StringElement,
      ObjectElement([k \in {"medicineName"} |-> "Aspirin"]),
      ObjectElement([k \in {"dosage"} |-> "10ml"]),
      ObjectElement([k \in MedKeys |-> ""]),
      ObjectElement([k \in MedKeys \cup {"frequency"} |->
          CASE k = "medicineName" -> "Amoxicillin"
            [] k = "dosage" -> "500mg"
            [] k = "duration" -> "7 days"
            [] k = "tablets" -> Null
            [] k = "frequency" -> "daily"]) }

RECURSIVE SeqsUpTo(_, _)
SeqsUpTo(S, n) ==
    IF n = 0 THEN {<<>>}
    ELSE LET shorter == SeqsUpTo(S, n - 1)
         IN  shorter \cup {Append(s, e) : s \in shorter, e \in S}

\* the value of the "prescription" key: missing, a string, or an array
PrescriptionValues ==
    { [kind |-> "undefined", items |-> <<>>],
      [kind |-> "string", items |-> <<>>] }
    \cup { [kind |-> "array", items |-> s] : s \in SeqsUpTo(MedPool, MaxMeds) }

ScalarProps ==
    [ patientName : {Undef, "", "Jane Doe"},
      date        : {Undef, "2024-03-01"},
      doctorName  : {Undef, "Adams"},
      diagnosis   : {Undef, "Flu"},
      notes       : {Undef, "Rest"},
      recordType  : {Undef, "lab_report"} ]

NoBody == [kind |-> "none", props |-> <<>>, prescription |-> [kind |-> "undefined", items |-> <<>>]]

ProseBody == [NoBody EXCEPT !.kind = "prose"]

NullBody == [NoBody EXCEPT !.kind = "null"]

ObjectBodies ==
    { [kind |-> "object", props |-> p, prescription |-> r] :
        p \in ScalarProps, r \in PrescriptionValues }

Bodies == {NoBody, ProseBody, NullBody} \cup ObjectBodies

\* the segment matched by the first alternative of the pattern, three grave
\* accents (written ^^^ here) followed by json and a line feed
FenceOpen == "^^^json\n"

\* the segment matched by the second alternative: a line feed and three
\* grave accents
FenceClose == "\n^^^"

\* how the model wraps the body: bare, in a json fence, in an unlabelled
\* fence, after a sentence of prose, between white space
Wrappers ==
    { <<<<>>, <<>>>>,
      <<<<" ">>, <<"\n">>>>,
      <<<<FenceOpen>>, <<FenceClose>>>>,
      <<<<"^^^\n">>, <<FenceClose>>>>,
      <<<<"Here is the JSON:", "\n">>, <<>>>> }

Contents == { [pre |-> w[1], body |-> b, post |-> w[2]] : w \in Wrappers, b \in Bodies }

NoContent == [pre |-> <<>>, body |-> NoBody, post |-> <<>>]

\* the string holding an empty JSON object
EmptyObjectContent ==
    [pre |-> <<>>, post |-> <<>>,
     body |-> [kind |-> "object", props |-> <<>>,
               prescription |-> [kind |-> "undefined", items |-> <<>>]]]

\* response.choices[0]?.message?.content || (the empty JSON object)
ResultOf(c) == IF c = NoContent THEN EmptyObjectContent ELSE c

NotFence(seg) == seg \notin {FenceOpen, FenceClose}

\* result.replace(/^^^json\n|\n^^^/g, '').trim()
CleanResult(result) ==
    [result EXCEPT !.pre = TrimStart(SelectSeq(@, NotFence)),
                   !.post = TrimEnd(SelectSeq(@, NotFence))]

JSONParseLenient(clean) == [ok |-> clean.body.kind \in {"null", "object"}, value |-> clean.body]

\* JSON.parse(cleanResult): throws unless the string is one JSON value
JSONParse(clean) ==
    [ok |-> /\ clean.body.kind \in {"null", "object"}
            /\ \A i \in 1..Len(clean.pre) : clean.pre[i] \in Whitespace
            /\ \A i \in 1..Len(clean.post) : clean.post[i] \in Whitespace,
     value |-> clean.body]

-----------------------------------------------------------------------------
(* Validation of the parsed answer (extractStructuredData) *)

\* typeof med: typeof null is 'object'
TypeOf(med) == IF med.kind \in {"null", "object"} THEN "object" ELSE med.kind

\* med as a condition: null is falsy, an object or a non-empty string is not
Truthy(med) == med.kind # "null"

\* med && typeof med === 'object'
IsObjectElement(med) == Truthy(med) /\ TypeOf(med) = "object"

MapMedicationCrossed(med) ==
    [k \in MedKeys |->
        CASE k = "medicineName" -> Or(Get(med, "dosage"), "")
          [] k = "dosage" -> Or(Get(med, "medicineName"), "")
          [] OTHER -> Or(Get(med, k), "")]

\* ({ medicineName: med?.medicineName || '', dosage: ..., duration: ..., tablets: ... })
MapMedication(med) == [k \in MedKeys |-> Or(Get(med, k), "")]

HasNamedField(med) == ~Falsy(med["medicineName"])

\* med.medicineName || med.dosage || med.duration || med.tablets
HasAnyField(med) == \E k \in MedKeys : ~Falsy(med[k])

MapAll(items) == [i \in 1..Len(items) |-> MapMedication(items[i].props)]

\* the prescription array after filter, map, filter; [] when it is no array
NormalizePrescription(p) ==
    IF p.kind # "array" THEN <<>>
    ELSE SelectSeq(MapAll(SelectSeq(p.items, IsObjectElement)), HasAnyField)

FormatDataNoDefaults(parsed) ==
    [ patientName  |-> Get(parsed.props, "patientName"),
      date         |-> Get(parsed.props, "date"),
      doctorName   |-> Get(parsed.props, "doctorName"),
      diagnosis    |-> Get(parsed.props, "diagnosis"),
      prescription |-> NormalizePrescription(parsed.prescription),
      notes        |-> Get(parsed.props, "notes"),
      recordType   |-> Get(parsed.props, "recordType"),
      summary      |-> Undef ]

FormatDataTypeOther(parsed) ==
    [FormatDataNoDefaults(parsed) EXCEPT
        !.patientName = Or(@, ""), !.date = Or(@, Today), !.doctorName = Or(@, ""),
        !.diagnosis = Or(@, ""), !.notes = Or(@, ""), !.recordType = Or(@, "other")]

\* const formattedData = { patientName: parsedData.patientName || '', ... }
FormatData(parsed) ==
    [ patientName  |-> Or(Get(parsed.props, "patientName"), ""),
      date         |-> Or(Get(parsed.props, "date"), Today),
      doctorName   |-> Or(Get(parsed.props, "doctorName"), ""),
      diagnosis    |-> Or(Get(parsed.props, "diagnosis"), ""),
      prescription |-> NormalizePrescription(parsed.prescription),
      notes        |-> Or(Get(parsed.props, "notes"), ""),
      recordType   |-> Or(Get(parsed.props, "recordType"), "prescription"),
      summary      |-> Undef ]

HasMeaningfulDataAlways(fd) == TRUE

\* formattedData.patientName || formattedData.diagnosis ||
\*   (formattedData.prescription || []).length > 0
HasMeaningfulData(fd) ==
    \/ ~Falsy(fd.patientName)
    \/ ~Falsy(fd.diagnosis)
    \/ Len(fd.prescription) > 0

\* extractedData.prescription.map(med => ({ medicineName: med.medicineName || '', ... }))
RemapPrescription(meds) == [i \in 1..Len(meds) |-> MapMedication(meds[i])]

BuildRecordOwnDocumentType(extractedData, f, t) ==
    [ patientName  |-> Or(extractedData.patientName, ""),
      date         |-> Or(extractedData.date, Today),
      doctorName   |-> Or(extractedData.doctorName, ""),
      diagnosis    |-> Or(extractedData.diagnosis, ""),
      prescription |-> RemapPrescription(extractedData.prescription),
      notes        |-> Or(extractedData.notes, ""),
      recordType   |-> Or(extractedData.recordType, "prescription"),
      documentType |-> Or(Get(extractedData, "documentType"), "prescription"),
      filePath     |-> f.path,
      originalText |-> t,
      summary      |-> Or(extractedData.summary, "") ]

\* const medicalRecord = { ... } of processDocument
BuildRecord(extractedData, f, t) ==
    [ patientName  |-> Or(extractedData.patientName, ""),
      date         |-> Or(extractedData.date, Today),
      doctorName   |-> Or(extractedData.doctorName, ""),
      diagnosis    |-> Or(extractedData.diagnosis, ""),
      prescription |-> RemapPrescription(extractedData.prescription),
      notes        |-> Or(extractedData.notes, ""),
      recordType   |-> Or(extractedData.recordType, "prescription"),
      documentType |-> Or(extractedData.recordType, "prescription"),
      filePath     |-> f.path,
      originalText |-> t,
      summary      |-> Or(extractedData.summary, "") ]

NoRecord == [none |-> TRUE]

NoData == [none |-> TRUE]

-----------------------------------------------------------------------------
(* Errors *)

NoError == "<none>"

\* an error thrown by pdf-parse, fs.readFileSync or Tesseract
LibraryError == "<pdf/ocr failure>"

\* an error thrown by openai.chat.completions.create
APIError == "<completion failure>"

NoTextError == "No text could be extracted from the document"

\* new Error('Failed to extract text from document: ' + error.message)
ExtractionError(message) == "Failed to extract text from document: " \o message

ParseError == "Failed to parse AI response"

-----------------------------------------------------------------------------
(* One invocation of processDocument, a step per awaited call *)

NoPromises == [extract |-> "none", completion |-> "none", summary |-> "none"]

NoCalls == [pdfParse |-> 0, ocr |-> 0, completion |-> 0, summary |-> 0]

\* no processDocument invocation has begun
PipelineInit ==
    /\ pc = "idle"
    /\ file = NoFile
    /\ rawText = <<>>
    /\ text = <<>>
    /\ content = NoContent
    /\ parsedData = NoBody
    /\ formattedData = NoData
    /\ medicalRecord = NoRecord
    /\ error = NoError
    /\ promises = NoPromises
    /\ calls = NoCalls

\* private static instance: AIProcessor, before getInstance is first called
FacadeInit ==
    /\ instance = 0
    /\ constructed = 0
    /\ returned = {}
    /\ getCalls = 0
    /\ smokeTest = "none"
    /\ process = "running"

\* the routes module has called getInstance once and the smoke test passed
FacadeReady ==
    /\ instance = 1
    /\ constructed = 1
    /\ returned = {1}
    /\ getCalls = 1
    /\ smokeTest = "resolved"
    /\ process = "running"

NoSearch ==
    [pc |-> "idle", query |-> "", given |-> [given |-> FALSE, value |-> 0], limit |-> 0,
     results |-> <<>>, error |-> NoError]

\* new MemoryVectorStore(embeddings): no document, no search
SearchInit ==
    /\ vectorStore = <<>>
    /\ search = NoSearch
    /\ storeCalls = 0

\* the concurrent invocations that are followed
Invocations == {1, 2}

\* the locals of a processDocument invocation that has not begun
NoLocals ==
    [pc |-> "idle", file |-> NoFile, rawText |-> <<>>, text |-> <<>>, content |-> NoContent,
     formattedData |-> NoData, summaryContent |-> Undef, medicalRecord |-> NoRecord,
     error |-> NoError, promises |-> NoPromises]

ConcurrentInit == inv = [i \in Invocations |-> NoLocals]

NoUser == "<no user>"

\* the Authorization header and what jwt.verify makes of its token: header is
\* "absent", "empty" (nothing after `Bearer `) or "token"; a token verifies or
\* makes jwt.verify throw; its payload is a string or an object, with or
\* without a userId
NoToken == [header |-> "absent", verifies |-> FALSE, payload |-> "none", userId |-> Undef]

\* res.status(401).json(...) and return: one response, next() not called
Denied == [next |-> 0, responses |-> 1, status |-> 401, user |-> NoUser]

\* a text field of a multipart body: not sent, or the string core with or
\* without white space around it (core itself starts and ends with none)
NotSent == [given |-> FALSE, core |-> "", pad |-> FALSE]

\* the text fields a body may carry
BodyKeys == ScalarKeys \cup {"userId"}

\* the prescription field: not sent, or a string that is empty, white space,
\* no JSON, a JSON object, or a JSON array of items
NoPrescriptionText == [given |-> FALSE, kind |-> "empty", items |-> <<>>]

EmptyForm == [fields |-> [k \in BodyKeys |-> NotSent], prescription |-> NoPrescriptionText]

\* how processDocument ends for an upload: it rejects, or resolves with a record
NoExtraction == [ok |-> FALSE, data |-> NoRecord]

\* typed: the searchQuery of the Dashboard when the request comes from its
\* search box; dbFails: record.save() or record.deleteOne() rejected for a
\* reason of the database's
NoRequest ==
    [stage |-> "none", route |-> "", token |-> NoToken, auth |-> Denied, id |-> 0,
     form |-> EmptyForm, fileName |-> "", extraction |-> NoExtraction, query |-> Undef,
     typed |-> NotSent, status |-> 0, handled |-> FALSE, recordData |-> NoRecord,
     dbFails |-> FALSE, listed |-> {}]

\* the records router before any request
RouteInit ==
    /\ records = {}
    /\ disk = {}
    /\ request = NoRequest
    /\ served = 0

Init ==
    /\ PipelineInit
    /\ FacadeReady
    /\ SearchInit
    /\ ConcurrentInit
    /\ RouteInit

\* processDocument's catch: console.error, throw error
Reject(e) ==
    /\ pc' = "rejected"
    /\ error' = e
    /\ medicalRecord' = NoRecord

\* return medicalRecord
Resolve(extractedData, f, t) ==
    /\ pc' = "resolved"
    /\ medicalRecord' = BuildRecord(extractedData, f, t)
    /\ error' = NoError

\* processDocument(file) up to the first await of extractText: the branch on
\* file.mimetype starts the PDF pass or OCR
ProcessDocument(f) ==
    /\ pc = "idle"
    /\ file' = f
    /\ IF f.mimetype = PdfMime
       THEN /\ pc' = "awaitPdfParse"
            /\ calls' = [calls EXCEPT !.pdfParse = @ + 1]
       ELSE /\ pc' = "awaitOcr"
            /\ calls' = [calls EXCEPT !.ocr = @ + 1]
    /\ UNCHANGED <<rawText, text, content, parsedData, formattedData, medicalRecord,
                   error, promises>>
    /\ UNCHANGED <<facadeVars, searchVars, inv, routeVars>>

ExtractTextReturnsAnything(t) ==
    /\ rawText' = t
    /\ text' = t
    /\ promises' = [promises EXCEPT !.extract = "resolved"]
    /\ pc' = "awaitCompletion"
    /\ calls' = [calls EXCEPT !.completion = @ + 1]
    /\ UNCHANGED <<medicalRecord, error>>

ExtractTextReturnsStartsBoth(t) ==
    /\ rawText' = t
    /\ promises' = [promises EXCEPT !.extract = "resolved"]
    /\ IF IsBlank(t)
       THEN /\ Reject(ExtractionError(NoTextError))
            /\ UNCHANGED <<text, calls>>
       ELSE /\ text' = t
            /\ pc' = "awaitCompletion"
            /\ calls' = [calls EXCEPT !.completion = @ + 1, !.summary = @ + 1]
            /\ UNCHANGED <<medicalRecord, error>>

\* the rest of extractText once the text is there, and processDocument up to
\* the await of the extraction completion
ExtractTextReturns(t) ==
    /\ rawText' = t
    /\ promises' = [promises EXCEPT !.extract = "resolved"]
    /\ IF IsBlank(t)
       THEN /\ Reject(ExtractionError(NoTextError))
            /\ UNCHANGED <<text, calls>>
       ELSE /\ text' = t
            /\ pc' = "awaitCompletion"
            /\ calls' = [calls EXCEPT !.completion = @ + 1]
            /\ UNCHANGED <<medicalRecord, error>>

\* extractText's catch when the PDF pass or OCR throws
ExtractTextThrows ==
    /\ promises' = [promises EXCEPT !.extract = "rejected"]
    /\ Reject(ExtractionError(LibraryError))
    /\ UNCHANGED <<rawText, text, calls>>

PdfParseResolves(t) ==
    /\ pc = "awaitPdfParse"
    /\ ExtractTextReturns(t)
    /\ UNCHANGED <<file, content, parsedData, formattedData>>
    /\ UNCHANGED <<facadeVars, searchVars, inv, routeVars>>

PdfParseRejects ==
    /\ pc = "awaitPdfParse"
    /\ ExtractTextThrows
    /\ UNCHANGED <<file, content, parsedData, formattedData>>
    /\ UNCHANGED <<facadeVars, searchVars, inv, routeVars>>

OcrResolves(t) ==
    /\ pc = "awaitOcr"
    /\ ExtractTextReturns(t)
    /\ UNCHANGED <<file, content, parsedData, formattedData>>
    /\ UNCHANGED <<facadeVars, searchVars, inv, routeVars>>

OcrRejects ==
    /\ pc = "awaitOcr"
    /\ ExtractTextThrows
    /\ UNCHANGED <<file, content, parsedData, formattedData>>
    /\ UNCHANGED <<facadeVars, searchVars, inv, routeVars>>

\* what the summary completion may answer: no content, or a summary
SummaryContents == {Undef, "Patient has flu; rest advised."}

\* the inner catch of extractStructuredData: throw new Error('Failed to parse
\* AI response'), rethrown by the outer catch and by processDocument
ThrowParseError ==
    /\ Reject(ParseError)
    /\ UNCHANGED <<formattedData, calls>>

\* extractStructuredData from the normalisation of the parsed answer to the
\* await of generateSummary, or to processDocument's return when the summary
\* is skipped
Validate(parsed) ==
    LET fd == FormatData(parsed)
    IN  /\ formattedData' = fd
        /\ IF HasMeaningfulData(fd)
           THEN /\ pc' = "awaitSummary"
                /\ calls' = [calls EXCEPT !.summary = @ + 1]
                /\ UNCHANGED <<medicalRecord, error>>
           ELSE /\ Resolve(fd, file, text)
                /\ UNCHANGED calls

\* extractStructuredData from `const result` on: clean, parse, validate.
\* JSON.parse throws on text that is no JSON; reading .prescription of a
\* parsed null throws a TypeError; both land in the inner catch
ParseAndValidate(c) ==
    LET parsed == JSONParse(CleanResult(ResultOf(c)))
    IN  IF ~parsed.ok
        THEN /\ UNCHANGED parsedData
             /\ ThrowParseError
        ELSE /\ parsedData' = parsed.value
             /\ IF parsed.value.kind = "null"
                THEN ThrowParseError
                ELSE Validate(parsed.value)

\* the extraction completion resolves with content c
CompletionResolves(c) ==
    /\ pc = "awaitCompletion"
    /\ content' = c
    /\ promises' = [promises EXCEPT !.completion = "resolved"]
    /\ ParseAndValidate(c)
    /\ UNCHANGED <<file, rawText, text>>
    /\ UNCHANGED <<facadeVars, searchVars, inv, routeVars>>

CompletionRejectsWithDefaults ==
    /\ pc = "awaitCompletion"
    /\ promises' = [promises EXCEPT !.completion = "rejected"]
    /\ Resolve(FormatData(EmptyObjectContent.body), file, text)
    /\ UNCHANGED <<file, rawText, text, content, parsedData, formattedData, calls>>
    /\ UNCHANGED <<facadeVars, searchVars, inv, routeVars>>

CompletionRejectsAndRetries ==
    /\ pc = "awaitCompletion"
    /\ IF calls.completion < 2
       THEN /\ calls' = [calls EXCEPT !.completion = @ + 1]
            /\ UNCHANGED <<pc, error, medicalRecord, promises>>
       ELSE /\ promises' = [promises EXCEPT !.completion = "rejected"]
            /\ Reject(APIError)
            /\ UNCHANGED calls
    /\ UNCHANGED <<file, rawText, text, content, parsedData, formattedData>>
    /\ UNCHANGED <<facadeVars, searchVars, inv, routeVars>>

\* the extraction completion rejects: the outer catch of extractStructuredData
\* and the catch of processDocument rethrow the error
CompletionRejects ==
    /\ pc = "awaitCompletion"
    /\ promises' = [promises EXCEPT !.completion = "rejected"]
    /\ Reject(APIError)
    /\ UNCHANGED <<file, rawText, text, content, parsedData, formattedData, calls>>
    /\ UNCHANGED <<facadeVars, searchVars, inv, routeVars>>

\* generateSummary resolves: formattedData.summary = content || '', return
\* formattedData, and processDocument builds and returns medicalRecord
SummaryResolves(s) ==
    /\ pc = "awaitSummary"
    /\ promises' = [promises EXCEPT !.summary = "resolved"]
    /\ formattedData' = [formattedData EXCEPT !.summary = Or(s, "")]
    /\ Resolve(formattedData', file, text)
    /\ UNCHANGED <<file, rawText, text, content, parsedData, calls>>
    /\ UNCHANGED <<facadeVars, searchVars, inv, routeVars>>

\* generateSummary rejects inside the inner try of extractStructuredData, whose
\* catch turns every error into 'Failed to parse AI response'
SummaryRejects ==
    /\ pc = "awaitSummary"
    /\ promises' = [promises EXCEPT !.summary = "rejected"]
    /\ Reject(ParseError)
    /\ UNCHANGED <<file, rawText, text, content, parsedData, formattedData, calls>>
    /\ UNCHANGED <<facadeVars, searchVars, inv, routeVars>>

Next ==
    \/ \E f \in Files : ProcessDocument(f)
    \/ \E t \in TextPool : PdfParseResolves(t)
    \/ PdfParseRejects
    \/ \E t \in TextPool : OcrResolves(t)
    \/ OcrRejects
    \/ pc = "awaitCompletion" /\ \E c \in Contents : CompletionResolves(c)
    \/ CompletionRejects
    \/ \E s \in SummaryContents : SummaryResolves(s)
    \/ SummaryRejects

Spec == Init /\ [][Next]_vars

-----------------------------------------------------------------------------
(* The singleton facade and its smoke test *)

\* the routes hold the object and the process serves requests
Callable == instance # 0 /\ process = "running"

\* constructor(): a new MemoryVectorStore, and testOpenAIConnection() started
\* without await
Construct ==
    /\ constructed' = constructed + 1
    /\ instance' = constructed + 1
    /\ vectorStore' = <<>>
    /\ smokeTest' = "pending"

GetInstanceAlwaysConstructs ==
    /\ process = "running"
    /\ getCalls < MaxGetInstance
    /\ getCalls' = getCalls + 1
    /\ Construct
    /\ returned' = returned \cup {instance'}
    /\ UNCHANGED <<process, search, storeCalls, pipelineVars, inv, routeVars>>

\* static getInstance(): construct on the first call only, return the instance
GetInstance ==
    /\ process = "running"
    /\ getCalls < MaxGetInstance
    /\ getCalls' = getCalls + 1
    /\ IF instance = 0
       THEN Construct
       ELSE UNCHANGED <<constructed, instance, vectorStore, smokeTest>>
    /\ returned' = returned \cup {instance'}
    /\ UNCHANGED <<process, search, storeCalls, pipelineVars, inv, routeVars>>

\* the smoke-test completion resolves: console.log('OpenAI connection successful')
SmokeTestResolves ==
    /\ process = "running"
    /\ smokeTest = "pending"
    /\ smokeTest' = "resolved"
    /\ UNCHANGED <<instance, constructed, returned, getCalls, process, searchVars,
                   pipelineVars, inv, routeVars>>

\* what Node does with a promise rejection nobody handles: end the process
\* (the default of recent versions) or warn and go on
UnhandledRejectionFates == {"exited", "running"}

\* the smoke-test completion rejects: testOpenAIConnection throws inside its
\* own promise, which the constructor neither awaits nor catches
SmokeTestRejects(fate) ==
    /\ process = "running"
    /\ smokeTest = "pending"
    /\ smokeTest' = "rejected"
    /\ process' = fate
    /\ UNCHANGED <<instance, constructed, returned, getCalls, searchVars, pipelineVars, inv, routeVars>>

-----------------------------------------------------------------------------
(* searchSimilarDocuments and the similarity index *)

\* limit: number = 5
DefaultLimit == 5

\* the limit argument of a call: left out, or a number
LimitArgs ==
    {[given |-> FALSE, value |-> 0]} \cup {[given |-> TRUE, value |-> n] : n \in 0..2}

Queries == {"headache"}

\* the error vectorStore.similaritySearch rejects with when the embedding of
\* the query fails
StoreError == "<embedding failure>"

\* MemoryVectorStore.similaritySearch(query, k): the k stored documents most
\* similar to the query, all of them when fewer are stored; which ones are the
\* most similar is left open
SimilaritySearch(store, query, k) ==
    LET m == IF k < Len(store) THEN k ELSE Len(store)
        picks == {f \in [1..m -> 1..Len(store)] :
                    \A i, j \in 1..m : i # j => f[i] # f[j]}
    IN  {[i \in 1..m |-> store[f[i]]] : f \in picks}

\* index(text, record) of the Similarity Index: one more stored document
IndexDocument ==
    /\ Callable
    /\ Len(vectorStore) < MaxDocs
    /\ vectorStore' = Append(vectorStore, Len(vectorStore) + 1)
    /\ UNCHANGED <<search, storeCalls, facadeVars, pipelineVars, inv, routeVars>>

SearchSimilarDocumentsFixedLimit(query, limit) ==
    /\ Callable
    /\ search.pc = "idle"
    /\ search' = [pc |-> "awaitStore", query |-> query, given |-> limit,
                  limit |-> DefaultLimit, results |-> <<>>, error |-> NoError]
    /\ storeCalls' = storeCalls + 1
    /\ UNCHANGED <<vectorStore, facadeVars, pipelineVars, inv, routeVars>>

\* searchSimilarDocuments(query, limit = 5) up to its await
SearchSimilarDocuments(query, limit) ==
    /\ Callable
    /\ search.pc = "idle"
    /\ search' = [pc |-> "awaitStore", query |-> query, given |-> limit,
                  limit |-> IF limit.given THEN limit.value ELSE DefaultLimit,
                  results |-> <<>>, error |-> NoError]
    /\ storeCalls' = storeCalls + 1
    /\ UNCHANGED <<vectorStore, facadeVars, pipelineVars, inv, routeVars>>

SimilaritySearchResolvesNonEmpty(results) ==
    /\ process = "running"
    /\ search.pc = "awaitStore"
    /\ search' = IF results = <<>>
                 THEN [search EXCEPT !.pc = "rejected", !.error = "No documents indexed"]
                 ELSE [search EXCEPT !.pc = "resolved", !.results = results]
    /\ UNCHANGED <<vectorStore, storeCalls, facadeVars, pipelineVars, inv, routeVars>>

\* the store's search resolves: return results
SimilaritySearchResolves(results) ==
    /\ process = "running"
    /\ search.pc = "awaitStore"
    /\ search' = [search EXCEPT !.pc = "resolved", !.results = results]
    /\ UNCHANGED <<vectorStore, storeCalls, facadeVars, pipelineVars, inv, routeVars>>

\* the store's search rejects: searchSimilarDocuments has no catch
SimilaritySearchRejects ==
    /\ process = "running"
    /\ search.pc = "awaitStore"
    /\ search' = [search EXCEPT !.pc = "rejected", !.error = StoreError]
    /\ UNCHANGED <<vectorStore, storeCalls, facadeVars, pipelineVars, inv, routeVars>>

SearchInitial ==
    /\ PipelineInit
    /\ FacadeReady
    /\ SearchInit
    /\ ConcurrentInit
    /\ RouteInit

SearchNext ==
    \/ IndexDocument
    \/ \E q \in Queries, l \in LimitArgs : SearchSimilarDocuments(q, l)
    \/ /\ search.pc = "awaitStore"
       /\ \E r \in SimilaritySearch(vectorStore, search.query, search.limit) :
             SimilaritySearchResolves(r)
    \/ SimilaritySearchRejects

SearchSpec == SearchInitial /\ [][SearchNext]_vars

-----------------------------------------------------------------------------
(* The process from start-up: the facade, one upload, searches *)

\* one upload
FacadeFiles == {f \in Files : f.mimetype = "image/png"}

\* what OCR may produce for it
FacadeTexts == {t \in TextPool : Len(t) \in {0, 4}}

\* what the completion may answer: nothing, prose, or an object with at most
\* a patient name
FacadeContents ==
    {c \in Contents :
        /\ c.pre = <<>>
        /\ c.post = <<>>
        /\ \/ c.body.kind \in {"none", "prose"}
           \/ /\ c.body.kind = "object"
              /\ c.body.prescription.kind = "undefined"
              /\ \A k \in DOMAIN c.body.props \ {"patientName"} : c.body.props[k] = Undef}

\* the process before records.ts has been loaded
FacadeInitial ==
    /\ PipelineInit
    /\ FacadeInit
    /\ SearchInit
    /\ ConcurrentInit
    /\ RouteInit

FacadeNext ==
    \/ GetInstance
    \/ SmokeTestResolves
    \/ \E fate \in UnhandledRejectionFates : SmokeTestRejects(fate)
    \/ Callable /\ \E f \in FacadeFiles : ProcessDocument(f)
    \/ Callable /\ \E t \in FacadeTexts : OcrResolves(t)
    \/ Callable /\ OcrRejects
    \/ Callable /\ pc = "awaitCompletion" /\ \E c \in FacadeContents : CompletionResolves(c)
    \/ Callable /\ CompletionRejects
    \/ Callable /\ \E s \in SummaryContents : SummaryResolves(s)
    \/ Callable /\ SummaryRejects
    \/ \E q \in Queries, l \in LimitArgs : SearchSimilarDocuments(q, l)
    \/ /\ search.pc = "awaitStore"
       /\ \E r \in SimilaritySearch(vectorStore, search.query, search.limit) :
             SimilaritySearchResolves(r)
    \/ SimilaritySearchRejects

FacadeSpec == FacadeInitial /\ [][FacadeNext]_vars

-----------------------------------------------------------------------------
(* Concurrent processDocument invocations: each keeps file, text,
   extractedData and medicalRecord in its own locals; inv[i] holds those of
   invocation i *)

\* the upload each invocation is given: different documents
ConcurrentFiles ==
    [i \in Invocations |->
        [mimetype |-> IF i = 1 THEN "image/png" ELSE PdfMime,
         path |-> IF i = 1 THEN "uploads/file-1" ELSE "uploads/file-2"]]

\* what OCR / the PDF pass may produce for each of them
ConcurrentTexts ==
    [i \in Invocations |-> {<<" ">>, IF i = 1 THEN <<"R", "x">> ELSE <<"A", "b">>}]

\* what the completion may answer
ConcurrentContents ==
    FacadeContents \cup
        {[pre |-> <<>>, post |-> <<>>,
          body |-> [kind |-> "object",
                    props |-> [p \in ScalarKeys |-> IF p = "patientName" THEN "John Roe" ELSE Undef],
                    prescription |-> [kind |-> "undefined", items |-> <<>>]]]}

\* processDocument's catch in invocation l
InvReject(l, e) == [l EXCEPT !.pc = "rejected", !.error = e, !.medicalRecord = NoRecord]

\* return medicalRecord in invocation l
InvResolve(l, extractedData) ==
    [l EXCEPT !.pc = "resolved",
              !.medicalRecord = BuildRecord(extractedData, l.file, l.text),
              !.error = NoError]

InvProcessDocument(i, f) ==
    /\ inv[i].pc = "idle"
    /\ inv' = [inv EXCEPT ![i] =
                 [@ EXCEPT !.file = f,
                           !.pc = IF f.mimetype = PdfMime THEN "awaitPdfParse" ELSE "awaitOcr"]]
    /\ UNCHANGED <<pipelineVars, facadeVars, searchVars, routeVars>>

\* the locals of invocation l after extractText has returned t
AfterExtractText(l, t) ==
    LET got == [l EXCEPT !.rawText = t, !.promises.extract = "resolved"]
    IN  IF IsBlank(t)
        THEN InvReject(got, ExtractionError(NoTextError))
        ELSE [got EXCEPT !.text = t, !.pc = "awaitCompletion"]

InvExtractTextReturnsIntoField(i, t) ==
    /\ inv[i].pc \in {"awaitPdfParse", "awaitOcr"}
    /\ inv' = [j \in Invocations |->
                 IF j = i THEN AfterExtractText(inv[i], t)
                 ELSE [inv[j] EXCEPT !.text = IF IsBlank(t) THEN @ ELSE t]]
    /\ UNCHANGED <<pipelineVars, facadeVars, searchVars, routeVars>>

\* const text = await this.extractText(file), in invocation i
InvExtractTextReturns(i, t) ==
    /\ inv[i].pc \in {"awaitPdfParse", "awaitOcr"}
    /\ inv' = [inv EXCEPT ![i] = AfterExtractText(@, t)]
    /\ UNCHANGED <<pipelineVars, facadeVars, searchVars, routeVars>>

InvExtractTextThrows(i) ==
    /\ inv[i].pc \in {"awaitPdfParse", "awaitOcr"}
    /\ inv' = [inv EXCEPT ![i] =
                 InvReject([@ EXCEPT !.promises.extract = "rejected"],
                           ExtractionError(LibraryError))]
    /\ UNCHANGED <<pipelineVars, facadeVars, searchVars, routeVars>>

\* the locals of invocation l after the extraction completion has answered c
AfterCompletion(l, c) ==
    LET got == [l EXCEPT !.content = c, !.promises.completion = "resolved"]
        parsed == JSONParse(CleanResult(ResultOf(c)))
        fd == FormatData(parsed.value)
    IN  IF ~parsed.ok \/ parsed.value.kind = "null"
        THEN InvReject(got, ParseError)
        ELSE IF HasMeaningfulData(fd)
             THEN [got EXCEPT !.formattedData = fd, !.pc = "awaitSummary"]
             ELSE InvResolve([got EXCEPT !.formattedData = fd], fd)

InvCompletionResolves(i, c) ==
    /\ inv[i].pc = "awaitCompletion"
    /\ inv' = [inv EXCEPT ![i] = AfterCompletion(@, c)]
    /\ UNCHANGED <<pipelineVars, facadeVars, searchVars, routeVars>>

InvCompletionRejects(i) ==
    /\ inv[i].pc = "awaitCompletion"
    /\ inv' = [inv EXCEPT ![i] =
                 InvReject([@ EXCEPT !.promises.completion = "rejected"], APIError)]
    /\ UNCHANGED <<pipelineVars, facadeVars, searchVars, routeVars>>

InvSummaryResolves(i, s) ==
    /\ inv[i].pc = "awaitSummary"
    /\ LET fd == [inv[i].formattedData EXCEPT !.summary = Or(s, "")]
       IN  inv' = [inv EXCEPT ![i] =
                     InvResolve([@ EXCEPT !.summaryContent = s,
                                          !.promises.summary = "resolved",
                                          !.formattedData = fd], fd)]
    /\ UNCHANGED <<pipelineVars, facadeVars, searchVars, routeVars>>

InvSummaryRejects(i) ==
    /\ inv[i].pc = "awaitSummary"
    /\ inv' = [inv EXCEPT ![i] =
                 InvReject([@ EXCEPT !.promises.summary = "rejected"], ParseError)]
    /\ UNCHANGED <<pipelineVars, facadeVars, searchVars, routeVars>>

ConcurrentNext ==
    \E i \in Invocations :
        \/ InvProcessDocument(i, ConcurrentFiles[i])
        \/ \E t \in ConcurrentTexts[i] : InvExtractTextReturns(i, t)
        \/ InvExtractTextThrows(i)
        \/ \E c \in ConcurrentContents : InvCompletionResolves(i, c)
        \/ InvCompletionRejects(i)
        \/ \E s \in SummaryContents : InvSummaryResolves(i, s)
        \/ InvSummaryRejects(i)

ConcurrentSpec == Init /\ [][ConcurrentNext]_vars

-----------------------------------------------------------------------------
(* The auth middleware *)

\* the users of the User collection
Users == {"u1", "u2"}

\* the id of a user that has been removed from the collection
RemovedUser == "u0"

TokenPool ==
    { NoToken,
      [NoToken EXCEPT !.header = "empty"],
      [NoToken EXCEPT !.header = "token"],
      [header |-> "token", verifies |-> TRUE, payload |-> "string", userId |-> Undef],
      [header |-> "token", verifies |-> TRUE, payload |-> "object", userId |-> Undef] }
    \cup { [header |-> "token", verifies |-> TRUE, payload |-> "object", userId |-> u] :
             u \in Users \cup {RemovedUser} }

\* (req as AuthRequest).user = user; next()
Admitted(user) == [next |-> 1, responses |-> 0, status |-> 0, user |-> user]

AuthTrustsPayload(token, lookupFails) ==
    IF token.header # "token" \/ ~token.verifies THEN Denied
    ELSE IF token.payload = "object" /\ token.userId # Undef
         THEN Admitted(token.userId)
         ELSE Denied

\* auth(req, res, next); lookupFails: User.findById rejects, which lands in
\* the catch like a token that does not verify
Auth(token, lookupFails) ==
    IF token.header # "token" THEN Denied
    ELSE IF ~token.verifies THEN Denied
    ELSE IF token.payload = "object" /\ token.userId # Undef
         THEN IF lookupFails THEN Denied
              ELSE IF token.userId \in Users THEN Admitted(token.userId)
              ELSE Denied
         ELSE Denied

-----------------------------------------------------------------------------
(* The records router: requests and their inputs *)

Plain(core) == [given |-> TRUE, core |-> core, pad |-> FALSE]

Padded(core) == [given |-> TRUE, core |-> core, pad |-> TRUE]

\* the string a field holds
Str(v) == IF v.pad THEN " " \o v.core \o " " ELSE v.core

\* v.trim()
TrimValue(v) == [v EXCEPT !.pad = FALSE]

\* req.body[key] && req.body[key].trim() !== ''
NonEmptyInput(v) == v.given /\ Str(v) # "" /\ Str(TrimValue(v)) # ""

\* the fields whose validator chain ends in trim()
TrimmedKeys == BodyKeys \ {"date", "userId"}

PrescriptionText(kind, items) == [given |-> TRUE, kind |-> kind, items |-> items]

\* the chains of body(...).optional().trim(): a field that was sent is trimmed
Sanitize(form) ==
    [form EXCEPT !.fields =
        [k \in BodyKeys |-> IF k \in TrimmedKeys THEN TrimValue(form.fields[k])
                            ELSE form.fields[k]]]

\* what the Dashboard form sends for a medication the user typed in
TypedMedication ==
    ObjectElement([k \in MedKeys |->
        CASE k = "medicineName" -> "Ibuprofen"
          [] k = "dosage" -> "200mg"
          [] k = "duration" -> "3 days"
          [] k = "tablets" -> "6"])

\* the bodies the router receives: the Dashboard's form, empty or filled in,
\* and the same with a userId of the sender's choosing
RouteForms ==
    { [fields |-> [k \in BodyKeys |->
          CASE k = "patientName" -> name
            [] k = "date" -> Plain(Today)
            [] k = "recordType" -> Plain("prescription")
            [] k = "userId" -> owner
            [] OTHER -> Plain("")],
       prescription |-> PrescriptionText("array", <<>>)] :
        name \in {Plain(""), Plain("Ann Lee")}, owner \in {NotSent, Plain("u2")} }

\* the answers of the language model followed here
RouteAnswers ==
    { [kind |-> "object",
       props |-> [k \in ScalarKeys |-> IF k = "patientName" THEN "Jane Doe" ELSE Undef],
       prescription |-> [kind |-> "array", items |-> <<TypedMedication>>]] }

\* req.file of an upload the fileFilter let through, stored by multer
Upload(name) == [mimetype |-> PdfMime, path |-> "uploads/" \o name]

Extractions(name) ==
    {NoExtraction} \cup
    { [ok |-> TRUE,
       data |-> BuildRecord([FormatData(b) EXCEPT !.summary = "Summary"], Upload(name),
                            <<"R", "x">>)] : b \in RouteAnswers }

\* file.fieldname + '-' + uniqueSuffix + extname: a fresh name per request
FileName(n) == "file-" \o ToString(n)

\* where a path relative to the working directory, or an attachment joined
\* to process.cwd(), lies on disk
OnDisk(path) == "<cwd>/" \o path

AttachmentOnDisk(attachment) == "<cwd>" \o attachment

\* `/uploads/${req.file.filename}`
Attachment(name) == "/uploads/" \o name

\* a request arrives and passes through auth, the first handler of every route
Receive(route, query, typed, token, lookupFails) ==
    /\ Callable
    /\ served < MaxRequests
    /\ \/ request.stage \in {"none", "done"}
       \/ request.route = "search" /\ search.pc \in {"resolved", "rejected"}
    /\ served' = served + 1
    /\ LET outcome == Auth(token, lookupFails)
       IN  request' = [NoRequest EXCEPT !.route = route, !.token = token, !.auth = outcome,
                                        !.query = query, !.typed = typed,
                                        !.stage = IF outcome.next = 1 THEN "handler" ELSE "done",
                                        !.status = outcome.status]
    /\ search' = NoSearch
    /\ UNCHANGED <<records, disk, vectorStore, storeCalls, pipelineVars, facadeVars, inv>>

\* handleSearch of the Dashboard: the request it issues
HandleSearch(searchQuery) ==
    IF Str(TrimValue(searchQuery)) = ""
    THEN [route |-> "list", query |-> Undef]
    ELSE [route |-> "search", query |-> Str(searchQuery)]

\* the handler of the request in progress is that of route
Handling(route) == request.stage = "handler" /\ request.route = route

\* the handler has answered with status
Answered(status) == [request EXCEPT !.stage = "done", !.handled = TRUE, !.status = status]

-----------------------------------------------------------------------------
(* GET / and GET /search *)

\* MedicalRecord.find({ userId: req.user._id }), res.json(transformedRecords)
ListRecords ==
    /\ Handling("list")
    /\ request' = [Answered(200) EXCEPT
                     !.listed = {r \in records : r.userId = request.auth.user}]
    /\ UNCHANGED <<records, disk, served, pipelineVars, facadeVars, searchVars, inv>>

QueryMissingOnlyUndefined(query) == query = Undef

\* !query
QueryMissing(query) == Falsy(query)

\* res.status(400).json({ message: 'Search query is required' })
SearchRouteRejects ==
    /\ Handling("search")
    /\ QueryMissing(request.query)
    /\ request' = Answered(400)
    /\ UNCHANGED <<records, disk, served, pipelineVars, facadeVars, searchVars, inv>>

\* the search route up to await aiProcessor.searchSimilarDocuments(query)
SearchRouteCalls ==
    /\ Handling("search")
    /\ ~QueryMissing(request.query)
    /\ SearchSimilarDocuments(request.query, [given |-> FALSE, value |-> 0])

-----------------------------------------------------------------------------
(* POST / *)

\* let recordData = { userId, recordType: 'other', date: today }; a key that
\* is not set reads undefined, an array that is not set is stored empty
BaseRecordData(user) ==
    [ userId |-> user, recordType |-> "other", date |-> Today,
      patientName |-> Undef, doctorName |-> Undef, diagnosis |-> Undef, notes |-> Undef,
      documentType |-> Undef, filePath |-> Undef, summary |-> Undef,
      prescription |-> <<>>, attachments |-> <<>>, originalText |-> <<>> ]

\* typeof x === 'string'
IsString(x) == x \notin {Undef, Null}

\* med && typeof med === 'object' && typeof med.medicineName === 'string' && ...
KeepsMedication(med) ==
    /\ IsObjectElement(med)
    /\ \A k \in {"medicineName", "dosage", "duration"} : IsString(Get(med.props, k))

\* the same filter on the medications of a record processDocument returned
KeepsExtracted(med) ==
    \A k \in {"medicineName", "dosage", "duration"} : IsString(med[k])

\* recordData = { ...extractedData, userId, attachments: [...] }
FromExtraction(data, user, name) ==
    [ userId |-> user,
      attachments |-> <<Attachment(name)>>,
      prescription |-> SelectSeq(data.prescription, KeepsExtracted) ] @@ data

\* the filtered array as the schema stores it: the four declared keys
StoredMedications(items) ==
    LET kept == SelectSeq(items, KeepsMedication)
    IN  [i \in 1..Len(kept) |-> [k \in MedKeys |-> Get(kept[i].props, k)]]

MergeManualAlways(recordData, form) ==
    [k \in DOMAIN recordData |->
        IF k \in BodyKeys /\ form.fields[k].given
        THEN Str(TrimValue(form.fields[k]))
        ELSE IF /\ k = "prescription"
                /\ form.prescription.given
                /\ form.prescription.kind = "array"
             THEN StoredMedications(form.prescription.items)
             ELSE recordData[k]]

\* Object.keys(req.body).forEach(...): a field that is not empty replaces the
\* value recordData holds; the prescription string does when it is not blank
\* and JSON.parse gives an array
MergeManual(recordData, form) ==
    [k \in DOMAIN recordData |->
        IF k \in BodyKeys /\ NonEmptyInput(form.fields[k])
        THEN Str(TrimValue(form.fields[k]))
        ELSE IF /\ k = "prescription"
                /\ form.prescription.given
                /\ form.prescription.kind \notin {"empty", "blank"}
                /\ form.prescription.kind = "array"
             THEN StoredMedications(form.prescription.items)
             ELSE recordData[k]]

\* if (missingFields.length > 0) recordData = { ...recordData, patientName:
\* recordData.patientName || '', ... }
FillMissing(recordData) ==
    IF \E k \in {"patientName", "date", "doctorName", "diagnosis"} : Falsy(recordData[k])
    THEN [recordData EXCEPT !.patientName = Or(@, ""), !.date = Or(@, Today),
                            !.doctorName = Or(@, ""), !.diagnosis = Or(@, ""),
                            !.notes = Or(@, ""), !.summary = Or(@, "")]
    ELSE recordData

\* the validation of record.save(): the required paths hold a non-empty
\* string, userId casts to an ObjectId (the id of a user, present or removed)
Validates(data) ==
    /\ \A k \in {"recordType", "patientName", "date"} : ~Falsy(data[k])
    /\ data.userId \in Users \cup {RemovedUser}

\* recordData at `new MedicalRecord(recordData)`
CreateRecordData(user, form, name, extraction) ==
    LET start == IF name # "" /\ extraction.ok
                 THEN FromExtraction(extraction.data, user, name)
                 ELSE BaseRecordData(user)
    IN  FillMissing(MergeManual(start, Sanitize(form)))

\* the handler of POST /: multer stores the upload, then processDocument,
\* the merge, record.save() and the answer; the catch unlinks the upload
CreateRecord(form, hasFile, extraction, saveFails) ==
    /\ Handling("create")
    /\ LET name == IF hasFile THEN FileName(served) ELSE ""
           data == CreateRecordData(request.auth.user, form, name, extraction)
           saved == Validates(data) /\ ~saveFails
       IN  /\ extraction \in (IF hasFile THEN Extractions(name) ELSE {NoExtraction})
           /\ records' = IF saved THEN records \cup {[id |-> served] @@ data} ELSE records
           /\ disk' = IF hasFile /\ saved THEN disk \cup {OnDisk(Upload(name).path)} ELSE disk
           /\ request' = [Answered(IF saved THEN 200 ELSE 500) EXCEPT
                            !.form = form, !.fileName = name, !.extraction = extraction,
                            !.recordData = data, !.dbFails = saveFails]
    /\ UNCHANGED <<served, pipelineVars, facadeVars, searchVars, inv>>

-----------------------------------------------------------------------------
(* PUT /:id and DELETE /:id *)

FindOneAnyOwner(id, user) == {r \in records : r.id = id}

\* MedicalRecord.findOne({ _id: id, userId: user }): the record, if any
FindOne(id, user) == {r \in records : r.id = id /\ r.userId = user}

\* Object.assign(record, { ...extractedData, ...req.body }) after the push of
\* the new attachment: a field the body carries, empty or not, is assigned
\* as it stands; what Mongoose makes of the prescription string is left to
\* the outcome of the save, the array is kept
AssignUpdate(record, form, name, extraction) ==
    [k \in DOMAIN record |->
        IF k \in BodyKeys /\ form.fields[k].given THEN Str(form.fields[k])
        ELSE IF k = "attachments"
             THEN IF name # "" THEN Append(record[k], Attachment(name)) ELSE record[k]
        ELSE IF k = "prescription" /\ form.prescription.given THEN record[k]
        ELSE IF name # "" /\ k \in DOMAIN extraction.data THEN extraction.data[k]
        ELSE record[k]]

\* the handler of PUT /:id: multer stores the upload, then findOne,
\* processDocument, Object.assign, record.save() and the answer; the 404
\* branch and the catch unlink the upload
UpdateRecord(id, form, hasFile, extraction, saveFails) ==
    /\ Handling("update")
    /\ LET name == IF hasFile THEN FileName(served) ELSE ""
           found == FindOne(id, request.auth.user)
           uploaded == IF hasFile THEN {OnDisk(Upload(name).path)} ELSE {}
       IN  /\ extraction \in (IF hasFile /\ found # {} THEN Extractions(name)
                               ELSE {NoExtraction})
           /\ IF found = {}
              THEN /\ UNCHANGED <<records, disk>>
                   /\ request' = [Answered(404) EXCEPT !.id = id, !.form = form,
                                                       !.fileName = name]
              ELSE LET record == CHOOSE r \in found : TRUE
                       data == AssignUpdate(record, Sanitize(form), name, extraction)
                       saved == /\ hasFile => extraction.ok
                                /\ Validates(data)
                                /\ ~saveFails
                   IN  /\ records' = IF saved THEN (records \ {record}) \cup {data}
                                     ELSE records
                       /\ disk' = IF saved THEN disk \cup uploaded ELSE disk
                       /\ request' = [Answered(IF saved THEN 200 ELSE 500) EXCEPT
                                        !.id = id, !.form = form, !.fileName = name,
                                        !.extraction = extraction, !.recordData = data,
                                        !.dbFails = saveFails]
    /\ UNCHANGED <<served, pipelineVars, facadeVars, searchVars, inv>>

\* the files the attachments of a record name
AttachedFiles(record) ==
    {AttachmentOnDisk(record.attachments[i]) : i \in 1..Len(record.attachments)}

\* the handler of DELETE /:id: findOne, unlink every attachment that exists,
\* record.deleteOne() and the answer
DeleteRecord(id, deleteFails) ==
    /\ Handling("delete")
    /\ LET found == FindOne(id, request.auth.user)
       IN  IF found = {}
           THEN /\ UNCHANGED <<records, disk>>
                /\ request' = [Answered(404) EXCEPT !.id = id]
           ELSE LET record == CHOOSE r \in found : TRUE
                IN  /\ disk' = disk \ AttachedFiles(record)
                    /\ records' = IF deleteFails THEN records ELSE records \ {record}
                    /\ request' = [Answered(IF deleteFails THEN 500 ELSE 200) EXCEPT
                                     !.id = id, !.dbFails = deleteFails]
    /\ UNCHANGED <<served, pipelineVars, facadeVars, searchVars, inv>>

-----------------------------------------------------------------------------
(* The records router at work *)

RoutesNext ==
    \/ \E route \in {"list", "create", "update", "delete"}, token \in TokenPool, lookupFails \in BOOLEAN :
          Receive(route, Undef, NotSent, token, lookupFails)
    \/ \E query \in {Undef, "", " ", "headache"}, token \in TokenPool, lookupFails \in BOOLEAN :
          Receive("search", query, NotSent, token, lookupFails)
    \/ \E searchQuery \in {Plain(""), Padded(""), Plain("headache"), Padded("headache")},
          token \in TokenPool :
          LET issued == HandleSearch(searchQuery)
          IN  Receive(issued.route, issued.query, searchQuery, token, FALSE)
    \/ ListRecords
    \/ SearchRouteRejects
    \/ SearchRouteCalls
    \/ /\ search.pc = "awaitStore"
       /\ \E r \in SimilaritySearch(vectorStore, search.query, search.limit) :
             SimilaritySearchResolves(r)
    \/ SimilaritySearchRejects
    \/ /\ Handling("create")
       /\ \E form \in RouteForms, hasFile, saveFails \in BOOLEAN :
             \E extraction \in Extractions(FileName(served)) \cup {NoExtraction} :
                CreateRecord(form, hasFile, extraction, saveFails)
    \/ /\ Handling("update")
       /\ \E id \in 1..MaxRequests, form \in RouteForms, hasFile, saveFails \in BOOLEAN :
             \E extraction \in Extractions(FileName(served)) \cup {NoExtraction} :
                UpdateRecord(id, form, hasFile, extraction, saveFails)
    \/ \E id \in 1..MaxRequests, deleteFails \in BOOLEAN : DeleteRecord(id, deleteFails)

RoutesSpec == Init /\ [][RoutesNext]_vars

-----------------------------------------------------------------------------
(* One create request over the bodies a sender can compose *)

\* prescription strings: not sent, empty, white space, no JSON, a JSON
\* object, an empty array, an array of a medication and a null
MergeForms ==
    { [fields |-> [k \in BodyKeys |->
          CASE k = "patientName" -> name
            [] k = "date" -> date
            [] k = "notes" -> notes
            [] k = "recordType" -> type
            [] k = "doctorName" -> Plain("")
            [] OTHER -> NotSent],
       prescription |-> p] :
        name \in {NotSent, Plain(""), Padded(""), Padded("Ann Lee")},
        date \in {Plain(""), Padded("2025-01-05")},
        notes \in {Padded(""), Plain("Fasting")},
        type \in {Plain(""), Plain("lab_result")},
        p \in { NoPrescriptionText,
                PrescriptionText("empty", <<>>),
                PrescriptionText("blank", <<>>),
                PrescriptionText("garbage", <<>>),
                PrescriptionText("object", <<>>),
                PrescriptionText("array", <<>>),
                PrescriptionText("array", <<TypedMedication, NullElement>>) } }

\* a create request of an existing user has passed auth
MergeInit ==
    /\ PipelineInit
    /\ FacadeReady
    /\ SearchInit
    /\ ConcurrentInit
    /\ records = {}
    /\ disk = {}
    /\ served = 1
    /\ \E token \in TokenPool :
          /\ Auth(token, FALSE).next = 1
          /\ request = [NoRequest EXCEPT !.route = "create", !.token = token,
                                         !.auth = Auth(token, FALSE), !.stage = "handler"]

MergeNext ==
    /\ Handling("create")
    /\ \E form \in MergeForms, hasFile \in BOOLEAN :
          \E extraction \in Extractions(FileName(served)) \cup {NoExtraction} :
             CreateRecord(form, hasFile, extraction, FALSE)

MergeSpec == MergeInit /\ [][MergeNext]_vars

-----------------------------------------------------------------------------
(* Properties *)

TopLevelKeys == ScalarKeys \cup {"prescription"}

RecordKeys == TopLevelKeys \cup {"documentType", "summary", "originalText", "filePath"}

\* the parsed answer holds no value under the key
Absent(parsed, k) == Get(parsed.props, k) = Undef

\* a field of a returned object is there and holds a value
Defined(record, k) ==
    /\ k \in DOMAIN record
    /\ IF k \in {"prescription", "originalText"}
       THEN DOMAIN record[k] = 1..Len(record[k])
       ELSE record[k] # Undef

\* C1: whenever the model's answer parsed as a JSON object, however sparse,
\* the object extractStructuredData builds has all seven declared fields
\* defined, and the record processDocument returns has those and
\* documentType, summary, originalText and filePath defined.
C1_AllFieldsDefined ==
    /\ formattedData # NoData => \A k \in TopLevelKeys : Defined(formattedData, k)
    /\ pc = "resolved" => \A k \in RecordKeys : Defined(medicalRecord, k)

\* a record was returned for an answer that held patientName and nothing else
C1_Witness ==
    /\ pc = "resolved"
    /\ Get(parsedData.props, "patientName") = "Jane Doe"
    /\ \A k \in ScalarKeys \ {"patientName"} : Absent(parsedData, k)
    /\ parsedData.prescription.kind = "undefined"

\* the default the specification declares for a top-level scalar field
DeclaredDefault(k) == IF k = "recordType" THEN "prescription" ELSE ""

\* the default the code applies: as declared, but the current date for date
AppliedDefault(k) == IF k = "date" THEN Today ELSE DeclaredDefault(k)

\* C2 as stated: a top-level field absent from the parsed answer is set to
\* its declared default -- the empty string for date, doctorName, diagnosis,
\* patientName and notes, "prescription" for recordType, the empty sequence
\* for prescription.
C2_AbsentFieldsGetDeclaredDefaults ==
    formattedData # NoData =>
        /\ \A k \in ScalarKeys :
              Absent(parsedData, k) => formattedData[k] = DeclaredDefault(k)
        /\ parsedData.prescription.kind = "undefined" => formattedData.prescription = <<>>

\* C2 amended: an absent date becomes the current date (YYYY-MM-DD); an
\* absent doctorName, diagnosis, patientName or notes becomes the empty
\* string, an absent recordType "prescription", an absent prescription the
\* empty sequence; processDocument's record carries the same values.
C2_AbsentFieldsGetAppliedDefaults ==
    /\ formattedData # NoData =>
        /\ \A k \in ScalarKeys :
              Absent(parsedData, k) => formattedData[k] = AppliedDefault(k)
        /\ parsedData.prescription.kind = "undefined" => formattedData.prescription = <<>>
    /\ pc = "resolved" =>
        /\ \A k \in ScalarKeys :
              Absent(parsedData, k) => medicalRecord[k] = AppliedDefault(k)
        /\ parsedData.prescription.kind = "undefined" => medicalRecord.prescription = <<>>

\* a record was returned for an answer without date, recordType and prescription
C2_Witness ==
    /\ pc = "resolved"
    /\ Absent(parsedData, "date")
    /\ Absent(parsedData, "recordType")
    /\ Absent(parsedData, "notes")
    /\ parsedData.prescription.kind = "undefined"
    /\ medicalRecord.date = Today

\* a subfield of an array element that holds a non-empty value
NonEmptyField(el, k) ==
    /\ el.kind = "object"
    /\ k \in DOMAIN el.props
    /\ el.props[k] \notin {"", Null}

\* the element is a medication with at least one non-empty field among the four
Retained(el) == \E k \in MedKeys : NonEmptyField(el, k)

\* the element reduced to the four fields, empty strings for the missing ones
Canonical(el) == [k \in MedKeys |-> IF NonEmptyField(el, k) THEN el.props[k] ELSE ""]

RECURSIVE RetainedInOrder(_)
RetainedInOrder(items) ==
    IF items = <<>> THEN <<>>
    ELSE IF Retained(Head(items))
         THEN <<Canonical(Head(items))>> \o RetainedInOrder(Tail(items))
         ELSE RetainedInOrder(Tail(items))

\* C3: the normalised prescription holds exactly the input medications with
\* at least one non-empty field among medicineName, dosage, duration and
\* tablets, in their original order, each reduced to those four fields with
\* the empty string for a missing one; an element with four empty fields is
\* dropped and a prescription that is no array becomes the empty sequence.
C3_PrescriptionNormalization ==
    formattedData # NoData =>
        /\ parsedData.prescription.kind # "array" => formattedData.prescription = <<>>
        /\ parsedData.prescription.kind = "array" =>
              formattedData.prescription = RetainedInOrder(parsedData.prescription.items)
        /\ \A i \in 1..Len(formattedData.prescription) :
              DOMAIN formattedData.prescription[i] = MedKeys

\* an array of an all-empty medication followed by one with only a name was
\* normalised to the named one alone
C3_Witness ==
    /\ pc = "resolved"
    /\ parsedData.prescription.kind = "array"
    /\ parsedData.prescription.items =
          << ObjectElement([k \in MedKeys |-> ""]),
             ObjectElement([k \in {"medicineName"} |-> "Aspirin"]) >>
    /\ formattedData.prescription =
          << [k \in MedKeys |-> IF k = "medicineName" THEN "Aspirin" ELSE ""] >>

\* a normalised medication sequence seen as the JSON array it is
AsArray(meds) ==
    [kind |-> "array", items |-> [i \in 1..Len(meds) |-> ObjectElement(meds[i])]]

\* C4: normalising an already normalised medication sequence yields the same
\* sequence, and so does the second mapping pass of processDocument: the
\* prescription of the returned record is the extractor's prescription.
C4_NormalizationIdempotent ==
    /\ formattedData # NoData =>
          /\ NormalizePrescription(AsArray(formattedData.prescription))
                = formattedData.prescription
          /\ RemapPrescription(formattedData.prescription) = formattedData.prescription
    /\ pc = "resolved" => medicalRecord.prescription = formattedData.prescription

\* a record with two different medications was returned, the first of them
\* normalised from an element with a null subfield and a fifth field
C4_Witness ==
    /\ pc = "resolved"
    /\ Len(medicalRecord.prescription) = 2
    /\ medicalRecord.prescription[1] # medicalRecord.prescription[2]
    /\ medicalRecord.prescription[1]["medicineName"] = "Amoxicillin"
    /\ medicalRecord.prescription[1]["tablets"] = ""

\* the normalised record has a name, a diagnosis or a medication
Meaningful(fd) ==
    fd.patientName # "" \/ fd.diagnosis # "" \/ fd.prescription # <<>>

\* C5: the summary completion is called during extractStructuredData exactly
\* when the normalised record has a non-empty patientName, a non-empty
\* diagnosis or a non-empty prescription; when all three are empty no summary
\* call is made and the returned record's summary is the empty string.
C5_SummaryOnlyForMeaningfulData ==
    /\ formattedData = NoData => calls.summary = 0
    /\ formattedData # NoData =>
          /\ Meaningful(formattedData) => calls.summary = 1
          /\ ~Meaningful(formattedData) =>
                /\ calls.summary = 0
                /\ pc = "resolved"
                /\ medicalRecord.summary = ""

\* a record was returned without a summary call for an answer holding only
\* medications that normalisation drops
C5_Witness ==
    /\ pc = "resolved"
    /\ calls.summary = 0
    /\ medicalRecord.summary = ""
    /\ parsedData.prescription.kind = "array"
    /\ Len(parsedData.prescription.items) > 0
    /\ Get(parsedData.props, "doctorName") = "Adams"

\* C6 as stated: when text extraction and JSON parsing succeeded and the
\* summary completion fails, processDocument still returns the extracted
\* record, with the empty string as its summary.
C6_SummaryFailureIsNotFatal ==
    promises.summary = "rejected" =>
        /\ pc = "resolved"
        /\ medicalRecord # NoRecord
        /\ medicalRecord.summary = ""

\* every text segment around the body is a fence marker the cleaning removes
\* or white space, and the body is a JSON value
StrippedIsJson(c) ==
    LET r == IF c.pre = <<>> /\ c.post = <<>> /\ c.body.kind = "none"
             THEN EmptyObjectContent ELSE c
        Removable(seg) == seg \in {FenceOpen, FenceClose} \cup Whitespace
    IN  /\ r.body.kind \in {"null", "object"}
        /\ \A i \in 1..Len(r.pre) : Removable(r.pre[i])
        /\ \A i \in 1..Len(r.post) : Removable(r.post[i])

\* C7: when the model's answer, after the code fences are stripped, is no
\* valid JSON, the invocation fails with the malformed-extraction error
\* ('Failed to parse AI response'), no record is built or returned, and no
\* further completion call is made: one extraction call, no summary call.
C7_MalformedAnswerFails ==
    (promises.completion = "resolved" /\ ~StrippedIsJson(content)) =>
        /\ pc = "rejected"
        /\ error = ParseError
        /\ formattedData = NoData
        /\ medicalRecord = NoRecord
        /\ calls.completion = 1
        /\ calls.summary = 0

\* the invocation failed on a JSON object that came after a sentence of prose
C7_Witness ==
    /\ pc = "rejected"
    /\ promises.completion = "resolved"
    /\ content.body.kind = "object"
    /\ content.pre = <<"Here is the JSON:", "\n">>
    /\ error = ParseError

\* the text is empty or holds white space only
AllWhitespace(t) == \A i \in 1..Len(t) : t[i] \in Whitespace

\* C8: extractText never returns an empty or white-space-only text: when the
\* PDF pass or OCR throws, or its text is empty after trimming, the
\* invocation fails with the extraction error and goes no further; otherwise
\* extractText returns exactly the text the pass produced.
C8_ExtractedTextNeverBlank ==
    /\ promises.extract = "rejected" =>
          /\ pc = "rejected"
          /\ error = ExtractionError(LibraryError)
          /\ calls.completion = 0
    /\ (promises.extract = "resolved" /\ AllWhitespace(rawText)) =>
          /\ pc = "rejected"
          /\ error = ExtractionError(NoTextError)
          /\ calls.completion = 0
    /\ (promises.extract = "resolved" /\ ~AllWhitespace(rawText)) =>
          /\ text = rawText
          /\ calls.completion = 1
          /\ pc = "resolved" => medicalRecord.originalText = rawText
    /\ pc \in {"awaitCompletion", "awaitSummary", "resolved"} => ~AllWhitespace(text)

\* OCR produced white space only and the invocation failed
C8_Witness ==
    /\ pc = "rejected"
    /\ promises.extract = "resolved"
    /\ rawText = <<"\n", " ">>
    /\ calls.ocr = 1

ImageMimes == {"image/jpeg", "image/png", "image/gif"}

UnsupportedFormatError == "Unsupported format"

\* C9 as stated: for a file whose MIME type is neither application/pdf nor an
\* image type, extractText fails with an unsupported-format error and invokes
\* neither the PDF parser nor OCR.
C9_MimeTypeIsValidated ==
    (file # NoFile /\ file.mimetype \notin {PdfMime} \cup ImageMimes) =>
        /\ calls.pdfParse = 0
        /\ calls.ocr = 0
        /\ pc = "rejected"
        /\ error = UnsupportedFormatError

\* some step the record depends on has failed
ComponentFailed ==
    \/ promises.extract = "rejected"
    \/ promises.extract = "resolved" /\ AllWhitespace(rawText)
    \/ promises.completion = "rejected"
    \/ promises.completion = "resolved" /\ ~StrippedIsJson(content)

\* C10: if text extraction, the extraction completion or JSON parsing fails,
\* processDocument fails and returns no record; a record is returned only
\* when all three have succeeded.
C10_AllOrNothing ==
    /\ ComponentFailed =>
          /\ pc = "rejected"
          /\ error # NoError
          /\ medicalRecord = NoRecord
    /\ medicalRecord # NoRecord =>
          /\ pc = "resolved"
          /\ promises.extract = "resolved"
          /\ promises.completion = "resolved"
          /\ StrippedIsJson(content)

\* the completion call failed after the text had been extracted, and the
\* invocation failed without a record
C10_Witness ==
    /\ pc = "rejected"
    /\ promises.extract = "resolved"
    /\ text = <<" ", "R", "x", "\n">>
    /\ promises.completion = "rejected"
    /\ medicalRecord = NoRecord

\* the error a failed summary completion is to surface as: the error thrown
\* by the completion call of generateSummary
SummaryError == "<summary completion failure>"

\* C11 as stated: every component failure reaches the caller of
\* processDocument with the kind of the component that failed -- an OCR/PDF
\* or empty-text failure as an extraction error, a completion failure as the
\* completion's own error, a JSON parse failure as the malformed-extraction
\* error, a summary failure as a summary error.
C11_ErrorsKeepTheirKind ==
    /\ promises.extract = "rejected" =>
          pc = "rejected" /\ error = ExtractionError(LibraryError)
    /\ (promises.extract = "resolved" /\ AllWhitespace(rawText)) =>
          pc = "rejected" /\ error = ExtractionError(NoTextError)
    /\ promises.completion = "rejected" =>
          pc = "rejected" /\ error = APIError
    /\ (promises.completion = "resolved" /\ ~StrippedIsJson(content)) =>
          pc = "rejected" /\ error = ParseError
    /\ promises.summary = "rejected" =>
          pc = "rejected" /\ error = SummaryError

\* the external calls of the invocation that have been issued and have not
\* settled yet
InFlight ==
    (IF promises.extract = "none" THEN calls.pdfParse + calls.ocr
     ELSE calls.pdfParse + calls.ocr - 1)
    + (IF promises.completion = "none" THEN calls.completion ELSE calls.completion - 1)
    + (IF promises.summary = "none" THEN calls.summary ELSE calls.summary - 1)

\* C15: within one processDocument invocation the extraction completion is
\* issued only after text extraction has returned, the summary call only
\* after the extraction answer has been parsed and normalised, and at most
\* one external call of the invocation is in flight at any time.
C15_ExternalCallsSequential ==
    /\ calls.completion > 0 => promises.extract = "resolved"
    /\ calls.summary > 0 =>
          /\ promises.completion = "resolved"
          /\ formattedData # NoData
    /\ InFlight <= 1

\* the summary call is in flight, after OCR and the extraction completion
\* have both returned
C15_Witness ==
    /\ pc = "awaitSummary"
    /\ calls = [pdfParse |-> 0, ocr |-> 1, completion |-> 1, summary |-> 1]
    /\ promises = [extract |-> "resolved", completion |-> "resolved", summary |-> "none"]
    /\ InFlight = 1

\* C16: within one processDocument invocation the text-extraction call (OCR
\* or PDF pass), the extraction completion and the summary completion are
\* each issued at most once, and the first failure of any of them ends the
\* invocation: it is rejected and takes no further step.
C16_NoRetry ==
    /\ calls.pdfParse + calls.ocr <= 1
    /\ calls.completion <= 1
    /\ calls.summary <= 1
    /\ (\E k \in DOMAIN promises : promises[k] = "rejected") =>
          /\ pc = "rejected"
          /\ ~ENABLED Next

\* OCR failed: one OCR call, no other call, the invocation rejected
C16_Witness ==
    /\ pc = "rejected"
    /\ promises.extract = "rejected"
    /\ calls = [pdfParse |-> 0, ocr |-> 1, completion |-> 0, summary |-> 0]

\* the documents passed to index so far
Indexed == {vectorStore[i] : i \in 1..Len(vectorStore)}

\* the limit a search is held to: the caller's, or 5 when the caller gave none
RequestedLimit == IF search.given.given THEN search.given.value ELSE 5

\* C18: searchSimilarDocuments(query, limit) asks the store for limit
\* documents, 5 when the caller supplies no limit, and returns at most that
\* many results, every one of them a document previously passed to index.
C18_SearchBoundedByLimit ==
    /\ search.pc # "idle" => search.limit = RequestedLimit
    /\ search.pc = "resolved" =>
          /\ Len(search.results) <= RequestedLimit
          /\ \A i \in 1..Len(search.results) : search.results[i] \in Indexed

\* a search without a limit over six indexed documents returned five of them
C18_Witness ==
    /\ search.pc = "resolved"
    /\ ~search.given.given
    /\ Len(vectorStore) = 6
    /\ Len(search.results) = 5
    /\ search.results[1] # 1

ProcessorUnavailableError == "Processor unavailable"

\* C12: once the smoke-test completion call has failed, every processDocument
\* or searchSimilarDocuments call that starts afterwards fails at once with a
\* processor-unavailable error and invokes neither OCR, PDF parsing, the
\* completion nor the index.
C12_FailedFacadeRefusesCalls ==
    [][smokeTest = "rejected" =>
          /\ (pc = "idle" /\ pc' # "idle") =>
                /\ pc' = "rejected"
                /\ error' = ProcessorUnavailableError
                /\ calls' = calls
          /\ (search.pc = "idle" /\ search'.pc # "idle") =>
                /\ search'.pc = "rejected"
                /\ search'.error = ProcessorUnavailableError
                /\ storeCalls' = storeCalls]_vars

\* C13: while the smoke test is still pending no processDocument or
\* searchSimilarDocuments call has performed any work: no invocation is under
\* way and no external call has been issued.
C13_NoWorkWhilePending ==
    smokeTest = "pending" =>
        /\ pc = "idle"
        /\ search.pc = "idle"
        /\ calls = NoCalls
        /\ storeCalls = 0

\* C14: every getInstance call returns the same instance, and the
\* constructor, with it the smoke test and the creation of the similarity
\* index, runs at most once.
C14_SingleInstance ==
    /\ constructed <= 1
    /\ Cardinality(returned) <= 1
    /\ getCalls > 0 =>
          /\ constructed = 1
          /\ returned = {instance}
    /\ smokeTest # "none" <=> constructed = 1

\* getInstance has been called twice and one instance exists
C14_Witness ==
    /\ getCalls = 2
    /\ constructed = 1
    /\ returned = {1}

\* the outcome of processDocument run alone on file f when the text pass, the
\* extraction completion and the summary completion end as the promises p
\* say, answering t, c and sm
OutcomeAlone(f, p, t, c, sm) ==
    LET parsed == JSONParse(CleanResult(ResultOf(c)))
        fd == FormatData(parsed.value)
        failed(e) == [pc |-> "rejected", medicalRecord |-> NoRecord, error |-> e]
        waiting(at) == [pc |-> at, medicalRecord |-> NoRecord, error |-> NoError]
        done(data) == [pc |-> "resolved", medicalRecord |-> BuildRecord(data, f, t),
                       error |-> NoError]
    IN  CASE f = NoFile -> waiting("idle")
          [] p.extract = "none" ->
                waiting(IF f.mimetype = PdfMime THEN "awaitPdfParse" ELSE "awaitOcr")
          [] p.extract = "rejected" -> failed(ExtractionError(LibraryError))
          [] IsBlank(t) -> failed(ExtractionError(NoTextError))
          [] p.completion = "none" -> waiting("awaitCompletion")
          [] p.completion = "rejected" -> failed(APIError)
          [] ~parsed.ok \/ parsed.value.kind = "null" -> failed(ParseError)
          [] ~HasMeaningfulData(fd) -> done(fd)
          [] p.summary = "none" -> waiting("awaitSummary")
          [] p.summary = "rejected" -> failed(ParseError)
          [] OTHER -> done([fd EXCEPT !.summary = Or(sm, "")])

\* C17: under every interleaving of two processDocument invocations for
\* different documents, each invocation stands where, and ends with the
\* record or error that, it would running alone on its own file and its own
\* answers from the text pass and the two completions.
C17_InvocationsIndependent ==
    \A i \in Invocations :
        LET l == inv[i]
        IN  [pc |-> l.pc, medicalRecord |-> l.medicalRecord, error |-> l.error]
                = OutcomeAlone(l.file, l.promises, l.rawText, l.content, l.summaryContent)

\* both invocations returned a record, each with its own file, text and
\* patient name
C17_Witness ==
    /\ inv[1].pc = "resolved"
    /\ inv[2].pc = "resolved"
    /\ inv[1].medicalRecord.originalText = <<"R", "x">>
    /\ inv[2].medicalRecord.originalText = <<"A", "b">>
    /\ inv[1].medicalRecord.filePath = "uploads/file-1"
    /\ inv[2].medicalRecord.filePath = "uploads/file-2"
    /\ inv[1].medicalRecord.patientName = "Jane Doe"
    /\ inv[2].medicalRecord.patientName = "John Roe"

\* type RecordType of the dashboard: the fixed record-type enumeration
RecordTypes == {"prescription", "lab_result", "xray", "mri", "other"}

\* C23: in every record processDocument returns, recordType is a member of
\* the fixed enumeration, whatever string the language model answered.
C23_RecordTypeInEnumeration ==
    pc = "resolved" => medicalRecord.recordType \in RecordTypes

\* C24: in every record processDocument returns, documentType equals
\* recordType.
C24_DocumentTypeMirrorsRecordType ==
    pc = "resolved" => medicalRecord.documentType = medicalRecord.recordType

\* a record was returned for an answer that named a record type of its own
C24_Witness ==
    /\ pc = "resolved"
    /\ Get(parsedData.props, "recordType") = "lab_report"
    /\ medicalRecord.recordType = "lab_report"
    /\ medicalRecord.documentType = "lab_report"

\* the handler of a protected route has run, or has begun, for the request
HandlerRan == request.handled \/ (request.route = "search" /\ search.pc # "idle")

\* C30: for every request the auth middleware either calls next() once with
\* req.user set, and then the token was present, verified, carried a userId
\* and that user exists, or sends one 401 response and never calls next();
\* no handler of the records router runs without a verified existing user.
C30_AuthAdmitsOrDenies ==
    request.stage # "none" =>
        /\ \/ /\ request.auth.next = 1
              /\ request.auth.responses = 0
              /\ request.auth.user \in Users
              /\ request.token.header = "token"
              /\ request.token.verifies
              /\ request.token.userId = request.auth.user
           \/ /\ request.auth.next = 0
              /\ request.auth.responses = 1
              /\ request.auth.status = 401
              /\ request.auth.user = NoUser
        /\ HandlerRan => request.auth.next = 1 /\ request.auth.user \in Users

\* the second request, a create request of user u2, was admitted and its
\* handler has stored a record
C30_Witness ==
    /\ served = 2
    /\ request.route = "create"
    /\ request.auth.user = "u2"
    /\ request.handled
    /\ request.status = 200
    /\ \E r \in records : r.id = 2

\* a create or update request that carried a file has been handled
UploadHandled ==
    /\ request.stage = "done"
    /\ request.handled
    /\ request.route \in {"create", "update"}
    /\ request.fileName # ""

\* C21: every persisted record that processDocument produced has been fed
\* into the similarity index, so that a later search can return it.
C21_PersistedRecordsAreIndexed ==
    \A r \in records : r.originalText # <<>> => r.id \in Indexed

\* C22: when processDocument fails during a create or update request that
\* carries a file, the request does not fail because of it: unless the
\* manual fields are themselves invalid or the database fails, the request
\* succeeds and the record with the manual fields, holding no extracted
\* text, is persisted.
C22_AIFailureFallsBackToManual ==
    ( /\ UploadHandled
      /\ request.status # 404
      /\ ~request.extraction.ok
      /\ ~request.dbFails
      /\ Validates(request.recordData) ) =>
        /\ request.status = 200
        /\ \E r \in records :
              /\ \A k \in DOMAIN request.recordData : r[k] = request.recordData[k]
              /\ request.route = "create" => r.originalText = <<>>

\* C26: a step of the router never stores a record under another owner than
\* the authenticated user who creates it, and never changes the owner of a
\* stored record.
C26_OwnerIsTheCreator ==
    [][\A r \in records' :
          IF \E o \in records : o.id = r.id
          THEN \A o \in records : o.id = r.id => r.userId = o.userId
          ELSE r.userId = request.auth.user]_vars

\* C28: after a create or update request that carried a file, the file is in
\* the attachments of a persisted record or is no longer on disk.
C28_NoOrphanedUpload ==
    UploadHandled =>
        \/ \E r \in records :
              \E i \in 1..Len(r.attachments) : r.attachments[i] = Attachment(request.fileName)
        \/ OnDisk(Upload(request.fileName).path) \notin disk

\* the record the request names belongs to another user than the requester
ForeignRecords == {r \in records : r.id = request'.id /\ r.userId # request.auth.user}

\* C27: a list request returns exactly the records whose userId is the
\* requester's, and an update or delete request on a record of another user
\* answers 404 and leaves every record and that record's attachment files
\* as they were.
C27_RecordsIsolatedPerUser ==
    [][/\ (Handling("list") /\ request'.stage = "done") =>
            request'.listed = {r \in records : r.userId = request.auth.user}
       /\ ( /\ Handling("update") \/ Handling("delete")
            /\ request'.stage = "done"
            /\ ForeignRecords # {} ) =>
               /\ request'.status = 404
               /\ records' = records
               /\ \A r \in ForeignRecords :
                     AttachedFiles(r) \cap disk' = AttachedFiles(r) \cap disk]_vars

\* user u2 asked to update, with a file, the record and attachment of user
\* u1: the answer was 404, the record and its file are still there
C27_Witness ==
    /\ request.stage = "done"
    /\ request.route = "update"
    /\ request.auth.user = "u2"
    /\ request.fileName = "file-2"
    /\ request.status = 404
    /\ \E r \in records :
          /\ r.id = request.id
          /\ r.userId = "u1"
          /\ r.attachments = <<Attachment("file-1")>>
    /\ disk = {OnDisk(Upload("file-1").path)}

\* the typed text is empty or white space
BlankText(v) == Str(v) \in {"", "  "}

\* C25: searchSimilarDocuments is never called with an empty query: the
\* search route answers a missing or empty query with 400 without calling
\* the facade, and the Dashboard sends a search request only for a query
\* that is not blank, a list request otherwise.
C25_NoEmptyQueryReachesSearch ==
    /\ search.pc # "idle" => search.query \notin {Undef, ""}
    /\ ( /\ request.route = "search"
         /\ request.auth.next = 1
         /\ request.query \in {Undef, ""} ) =>
            /\ search.pc = "idle"
            /\ request.stage = "done" => request.status = 400
    /\ request.typed.given =>
          IF BlankText(request.typed)
          THEN request.route = "list"
          ELSE request.route = "search" /\ request.query = Str(request.typed)

\* the Dashboard sent the padded word typed into its search box, and the
\* route has called the facade with it
C25_Witness ==
    /\ request.typed = Padded("headache")
    /\ request.route = "search"
    /\ search.pc = "awaitStore"
    /\ search.query = " headache "
    /\ storeCalls = 1

\* a create request whose upload was extracted has been handled
MergedWithExtraction ==
    /\ request.stage = "done"
    /\ request.handled
    /\ request.route = "create"
    /\ request.extraction.ok

\* what the record holds under k when the body leaves it alone
ExtractedValue(k) ==
    IF k = "userId" THEN request.auth.user ELSE request.extraction.data[k]

\* C29: in a create request every body field that is not empty after
\* trimming replaces the extracted value of that field with its trimmed
\* text, and an empty or white-space-only field leaves the extracted value as
\* it was; a prescription string that parses as a JSON array replaces the
\* extracted prescription, any other leaves it as it was.
C29_ManualInputWinsWhenNonEmpty ==
    MergedWithExtraction =>
        /\ \A k \in BodyKeys :
              LET v == request.form.fields[k]
              IN  request.recordData[k] =
                     IF v.given /\ ~BlankText(v) THEN v.core ELSE ExtractedValue(k)
        /\ request.recordData.prescription =
              IF request.form.prescription.given /\ request.form.prescription.kind = "array"
              THEN StoredMedications(request.form.prescription.items)
              ELSE request.extraction.data.prescription

\* the padded patient name and date were trimmed and put in place of the
\* extracted ones, the blank notes and the prescription that is no JSON left
\* the extracted notes and medication in place
C29_Witness ==
    /\ MergedWithExtraction
    /\ request.form.fields["patientName"] = Padded("Ann Lee")
    /\ request.form.fields["notes"] = Padded("")
    /\ request.form.prescription.kind = "garbage"
    /\ request.extraction.data.patientName = "Jane Doe"
    /\ request.recordData.patientName = "Ann Lee"
    /\ request.recordData.date = "2025-01-05"
    /\ request.recordData.notes = ""
    /\ Len(request.recordData.prescription) = 1
    /\ request.recordData.prescription[1].medicineName = "Ibuprofen"

====
